---- MODULE Spec2Model ----
(***************************************************************************)
(* GuitarBuilder: the textured cut (textured_cut.py) and the seven-cut     *)
(* decomposition sequence (setup_scene.py), over the host scene            *)
(* bpy.data.objects.                                                        *)
(*                                                                         *)
(* An object name is a sequence of string pieces ("Guitar_Body",           *)
(* "_Processed", ".001", ...): the pieces are chosen so that none of the   *)
(* patterns the code tests for (a prefix Cutter_Tool or Auto_Cutter, a     *)
(* suffix _Processed, a substring .00) straddles two pieces.  None is the  *)
(* empty sequence.  A geometry is a vertex count and a bounding-box        *)
(* dimension.  The code only ever tests a vertex count against 0, so the   *)
(* count is kept as 0 (an empty mesh) or 1 (any other mesh); dimensions    *)
(* are compared for equality and range over 1..MaxDim (0: empty mesh).     *)
(***************************************************************************)
EXTENDS Integers, Sequences, FiniteSets, TLC

\* ---------------------------------------------------------------- bounds
MaxDim == 2

\* ----------------------------------------------------------------- names
None == <<>>
NoObj == 0

\* The numeric suffixes the host appends to make a name unique.
DupSuffixes == <<".001", ".002", ".003", ".004", ".005", ".006">>

\* Pieces that contain the substring ".00".
Dot00Pieces == {".001", ".002", ".003", ".004", ".005", ".006"}

\* A suffix the host generates after nine collisions: it has no ".00" in it.
HighDupSuffix == ".010"

HasDupSuffix(n) == Len(n) > 0 /\ \E k \in DOMAIN DupSuffixes : n[Len(n)] = DupSuffixes[k]

StripDup(n) == IF HasDupSuffix(n) THEN SubSeq(n, 1, Len(n) - 1) ELSE n

\* str.startswith / str.endswith / substring test, on pieces.
StartsWith(n, p) == Len(n) > 0 /\ n[1] = p
EndsWith(n, p) == Len(n) > 0 /\ n[Len(n)] = p
ContainsDot00(n) == \E i \in DOMAIN n : n[i] \in Dot00Pieces

\* --------------------------------------------------------------- objects
Empty == [verts |-> 0, dims |-> 0]
Geoms == {Empty} \cup {[verts |-> 1, dims |-> d] : d \in 1..MaxDim}

Obj(n, t, g, o) == [name |-> n, type |-> t, verts |-> g.verts, dims |-> g.dims, op |-> o]
GeomOf(ob) == [verts |-> ob.verts, dims |-> ob.dims]

Alive(o, id) == id \in DOMAIN o

NamesExcept(o, id) == {o[i].name : i \in DOMAIN o \ {id}}

\* The host keeps names unique: a taken name gets the first free numeric suffix.
UniqueName(n, taken) ==
    IF n \notin taken THEN n
    ELSE LET free == {k \in DOMAIN DupSuffixes : (StripDup(n) \o <<DupSuffixes[k]>>) \notin taken}
             k0 == CHOOSE k \in free : \A j \in free : k <= j
         IN StripDup(n) \o <<DupSuffixes[k0]>>

\* obj.name = n
Rename(o, id, n) == [o EXCEPT ![id].name = UniqueName(n, NamesExcept(o, id))]

\* bpy.data.objects.get(name)
Lookup(o, n) == IF \E i \in DOMAIN o : o[i].name = n
                 THEN CHOOSE i \in DOMAIN o : o[i].name = n
                 ELSE NoObj

\* bpy.data.objects.remove(obj, do_unlink=True)
Remove(o, id) == [i \in DOMAIN o \ {id} |-> o[i]]

\* a new object enters the scene under a unique name
Add(o, id, ob) == (id :> [ob EXCEPT !.name = UniqueName(ob.name, NamesExcept(o, id))]) @@ o

\* bpy.ops.object.duplicate(): a copy under the source's name made unique
Duplicate(o, src, id) == Add(o, id, o[src])

SetGeom(o, id, g) == [o EXCEPT ![id].verts = g.verts, ![id].dims = g.dims]

\* ------------------------------------------------------- cleanup_debris
\* The three markers looked for anywhere in the name.
IsDebrisAnywhere(n) ==
    \E i \in DOMAIN n : n[i] \in {"Cutter_Tool", "Auto_Cutter", "_Processed"} \cup Dot00Pieces

IsDebris(n) ==
    \/ StartsWith(n, "Cutter_Tool")
    \/ StartsWith(n, "Auto_Cutter")
    \/ EndsWith(n, "_Processed")
    \/ ContainsDot00(n)

DebrisIds(o) == {i \in DOMAIN o : IsDebris(o[i].name)}

\* A sweep that stops after its first removal.
CleanupFirstOnly(o) ==
    IF DebrisIds(o) = {} THEN o
    ELSE Remove(o, CHOOSE i \in DebrisIds(o) : \A j \in DebrisIds(o) : i <= j)

CleanupDebris(o) == [i \in DOMAIN o \ DebrisIds(o) |-> o[i]]


\* ------------------------------------------------------------ the state
VARIABLES
    objs,          \* bpy.data.objects: object id -> object
    nextId,        \* the id the next created object gets
    pc,            \* position inside cut() / create_textured_cut()
    target_name, part1_name, part2_name,      \* arguments of cut()
    target, cutter, tool_obj, temp_obj, part_a_obj, part_b_obj,   \* locals (object references)
    result,        \* what cut() returned: "pending", "True", "False", "raised"
    scene0,        \* the scene when cut() was called
    tgt0,          \* geometry of the target when cut() validated it
    attempts,      \* the boolean attempts of this cut, in order
    cutNo,         \* setup_scene: the cut being run (0: no sequence is running)
    invoked,       \* setup_scene: the cuts invoked so far
    cutResults,    \* setup_scene: what each invoked cut returned
    seqReturn,     \* setup_scene: "running", then the value returned to the caller
    sweepLog       \* debris counts of the cleanup_debris() calls made in a row by the caller

args == <<target_name, part1_name, part2_name>>
locals == <<target, cutter, tool_obj, temp_obj, part_a_obj, part_b_obj>>
seqVars == <<cutNo, invoked, cutResults, seqReturn>>
vars == <<objs, nextId, pc, args, locals, result, scene0, tgt0, attempts, seqVars, sweepLog>>

\* ------------------------------------------------------ program constants
AutoCutter == <<"Auto_Cutter">>
CutterToolTemp == <<"Cutter_Tool", "_Temp">>
RandIds == {"1000", "9999"}
PlaneGeom == [verts |-> 1, dims |-> 1]
ToolGeoms == {PlaneGeom, Empty}

\* A list whose third cut targets a name the second cut has consumed.
CutSpecsMalformed == <<
    [target |-> <<"Guitar_Body">>,         part1 |-> <<"Guitar_Top">>,          part2 |-> <<"Guitar_Bottom">>],
    [target |-> <<"Guitar_Bottom">>,       part1 |-> <<"Guitar_Bot_Left">>,     part2 |-> <<"Guitar_Bot_Right">>],
    [target |-> <<"Guitar_Bottom">>,       part1 |-> <<"Guitar_Middle_Right">>, part2 |-> <<"Guitar_Left">>],
    [target |-> <<"Guitar_Middle_Right">>, part1 |-> <<"Guitar_Middle">>,       part2 |-> <<"Guitar_Right">>],
    [target |-> <<"Guitar_Left">>,         part1 |-> <<"Guitar_Top_Left">>,     part2 |-> <<"Guitar_Mid_Left">>],
    [target |-> <<"Guitar_Right">>,        part1 |-> <<"Guitar_Top_Right">>,    part2 |-> <<"Guitar_Mid_Right">>],
    [target |-> <<"Guitar_Middle">>,       part1 |-> <<"Guitar_Top_Mid">>,      part2 |-> <<"Guitar_Mid">>] >>

\* The seven cuts of setup_scene, in order.
CutSpecs == <<
    [target |-> <<"Guitar_Body">>,         part1 |-> <<"Guitar_Top">>,          part2 |-> <<"Guitar_Bottom">>],
    [target |-> <<"Guitar_Bottom">>,       part1 |-> <<"Guitar_Bot_Left">>,     part2 |-> <<"Guitar_Bot_Right">>],
    [target |-> <<"Guitar_Top">>,          part1 |-> <<"Guitar_Middle_Right">>, part2 |-> <<"Guitar_Left">>],
    [target |-> <<"Guitar_Middle_Right">>, part1 |-> <<"Guitar_Middle">>,       part2 |-> <<"Guitar_Right">>],
    [target |-> <<"Guitar_Left">>,         part1 |-> <<"Guitar_Top_Left">>,     part2 |-> <<"Guitar_Mid_Left">>],
    [target |-> <<"Guitar_Right">>,        part1 |-> <<"Guitar_Top_Right">>,    part2 |-> <<"Guitar_Mid_Right">>],
    [target |-> <<"Guitar_Middle">>,       part1 |-> <<"Guitar_Top_Mid">>,      part2 |-> <<"Guitar_Mid">>] >>

NumCuts == Len(CutSpecs)

\* ------------------------------------------------------------------ cut()
\* Entry of cut(target_name, location, rotation_deg, part1_name, part2_name).
cut(t, a, b) ==
    /\ pc = "idle"
    /\ target_name' = t /\ part1_name' = a /\ part2_name' = b
    /\ target' = NoObj /\ cutter' = NoObj /\ tool_obj' = NoObj
    /\ temp_obj' = NoObj /\ part_a_obj' = NoObj /\ part_b_obj' = NoObj
    /\ result' = "pending"
    /\ scene0' = objs
    /\ tgt0' = Empty
    /\ attempts' = <<>>
    /\ sweepLog' = <<>>
    /\ pc' = "validate"
    /\ UNCHANGED <<objs, nextId>>

\* The three precondition tests made without the empty-mesh test.
TargetValidNoEmptyTest(o, t) == t # NoObj /\ o[t].type = "MESH"

\* "Validate target object": found, a MESH, at least one vertex.
TargetValid(o, t) == t # NoObj /\ o[t].type = "MESH" /\ o[t].verts > 0

cut_validate ==
    /\ pc = "validate"
    /\ LET t == Lookup(objs, target_name)
       IN IF TargetValid(objs, t)
          THEN /\ target' = t
               /\ tgt0' = GeomOf(objs[t])
               /\ pc' = "create_cutter"
               /\ UNCHANGED result
          ELSE /\ result' = "False"
               /\ pc' = "done"
               /\ UNCHANGED <<target, tgt0>>
    /\ UNCHANGED <<objs, nextId, args, cutter, tool_obj, temp_obj, part_a_obj, part_b_obj,
                   scene0, attempts, seqVars, sweepLog>>

\* What cut() returns when creating the cutter plane raises, if the handler let it through.
CutterFailureEscapes == "raised"

\* "except Exception ... return False" of the cutter-plane block.
CutterFailure == "False"

\* "Create cutter plane": the plane is added and named Auto_Cutter; the host may
\* raise before the plane exists or after it.
cut_create_cutter ==
    /\ pc = "create_cutter"
    /\ \/ /\ result' = CutterFailure
          /\ pc' = "done"
          /\ UNCHANGED <<objs, nextId, cutter>>
       \/ /\ objs' = Add(objs, nextId, Obj(AutoCutter, "MESH", PlaneGeom, "NONE"))
          /\ nextId' = nextId + 1
          /\ cutter' = nextId
          /\ \/ pc' = "synth_tool" /\ UNCHANGED result
             \/ pc' = "done" /\ result' = CutterFailure
    /\ UNCHANGED <<args, target, tool_obj, temp_obj, part_a_obj, part_b_obj,
                   scene0, tgt0, attempts, seqVars, sweepLog>>

\* --------------------------------------------------- create_textured_cut()
\* The tool goes straight into the split.
AfterSynthesisSkipsHealing == "b_exact"

\* "2. Process Cutter" is followed by "Data cleanup on Targets".
AfterSynthesis == "heal"

\* Steps 1 and 2: the active object must be a mesh and a mesh target must be
\* selected (else CANCELLED); the plane is duplicated into Cutter_Tool_Temp and
\* subdivided, displaced, solidified, triangulated and cleaned.  A host operator
\* may raise before the duplicate exists or after it.
ctc_synth_tool ==
    /\ pc = "synth_tool"
    /\ IF objs[cutter].type # "MESH" \/ objs[target].type # "MESH"
       THEN /\ pc' = "cut_cleanup"
            /\ UNCHANGED <<objs, nextId, tool_obj>>
       ELSE \/ /\ pc' = "handler"
               /\ UNCHANGED <<objs, nextId, tool_obj>>
            \/ \E g \in ToolGeoms :
               /\ objs' = SetGeom(Rename(Duplicate(objs, cutter, nextId), nextId, CutterToolTemp),
                                  nextId, g)
               /\ nextId' = nextId + 1
               /\ tool_obj' = nextId
               /\ pc' \in {AfterSynthesis, "handler"}
    /\ UNCHANGED <<args, target, cutter, temp_obj, part_a_obj, part_b_obj,
                   result, scene0, tgt0, attempts, seqVars, sweepLog>>

\* What merging doubles and deleting loose geometry can leave of a mesh: the
\* mesh, or nothing (a mesh of loose geometry only).
Healed(g) == {g, Empty}

\* "Data cleanup on Targets": bake modifiers, apply transform, merge by distance,
\* delete loose, fill holes, recalculate normals, triangulate.
ctc_heal ==
    /\ pc = "heal"
    /\ \E g \in Healed(GeomOf(objs[target])) :
       /\ objs' = SetGeom(objs, target, g)
       /\ pc' \in {"b_exact", "handler"}
    /\ UNCHANGED <<nextId, args, locals, result, scene0, tgt0, attempts, seqVars, sweepLog>>

\* What applying a BOOLEAN modifier can leave in a duplicate of geometry g: the
\* kernel's result, or g itself when modifier_apply raised (the error is logged
\* and swallowed).
BoolResults(g) == IF g.verts = 0 THEN {Empty} ELSE Geoms

\* The names the two duplicates are created under.
PartBTempName == IF part2_name # None THEN part2_name ELSE objs[target].name \o <<"_B">>
PartATempName == IF part1_name # None THEN part1_name ELSE target_name \o <<"_A">>

\* The two operations in the other order.
OpAtReversed(p) == IF p \in {"b_exact", "b_float"} THEN "DIFFERENCE" ELSE "INTERSECT"

\* Part B is the INTERSECT, computed first; part A the DIFFERENCE.
OpAt(p) == IF p \in {"b_exact", "b_float"} THEN "INTERSECT" ELSE "DIFFERENCE"
PartNameAt(p) == IF p \in {"b_exact", "b_float"} THEN PartBTempName ELSE PartATempName
AfterBoolean(p) == IF p \in {"b_exact", "b_float"} THEN "rename_target" ELSE "post"
FallbackOf(p) == IF p = "b_exact" THEN "b_float" ELSE "a_float"

\* One attempt of perform_robust_boolean: duplicate the target, name the
\* duplicate, apply the modifier with the given solver.
Attempt(o, id, p, g) ==
    [SetGeom(Rename(Duplicate(o, target, id), id, PartNameAt(p)), id, g)
        EXCEPT ![id].op = OpAt(p)]

\* The result is accepted without any test.
AcceptsAlways(g) == TRUE

\* "Check Result": the EXACT result is returned when it has vertices.
Accepts(g) == g.verts > 0

\* perform_robust_boolean, "1. Try EXACT Solver first".
prb_exact ==
    /\ pc \in {"b_exact", "a_exact"}
    /\ \/ /\ pc' = "handler"
          /\ UNCHANGED <<objs, nextId, temp_obj, part_a_obj, part_b_obj, attempts>>
       \/ \E g \in BoolResults(GeomOf(objs[target])) :
          /\ objs' = Attempt(objs, nextId, pc, g)
          /\ nextId' = nextId + 1
          /\ temp_obj' = nextId
          /\ attempts' = Append(attempts, [op |-> OpAt(pc), solver |-> "EXACT", geom |-> g,
                                          src |-> target, tool |-> tool_obj, id |-> nextId])
          /\ IF Accepts(g)
             THEN /\ pc' = AfterBoolean(pc)
                  /\ part_b_obj' = IF pc = "b_exact" THEN nextId ELSE part_b_obj
                  /\ part_a_obj' = IF pc = "a_exact" THEN nextId ELSE part_a_obj
             ELSE /\ pc' = FallbackOf(pc)
                  /\ UNCHANGED <<part_a_obj, part_b_obj>>
    /\ UNCHANGED <<args, target, cutter, tool_obj, result, scene0, tgt0, seqVars, sweepLog>>

\* perform_robust_boolean, "2. Fallback to FAST/FLOAT Solver": the failed attempt
\* is removed, the target duplicated again; the result is returned even if empty.
prb_float ==
    /\ pc \in {"b_float", "a_float"}
    /\ \/ /\ objs' = Remove(objs, temp_obj)
          /\ pc' = "handler"
          /\ UNCHANGED <<nextId, temp_obj, part_a_obj, part_b_obj, attempts>>
       \/ \E g \in BoolResults(GeomOf(objs[target])) :
          /\ objs' = Attempt(Remove(objs, temp_obj), nextId, pc, g)
          /\ nextId' = nextId + 1
          /\ temp_obj' = nextId
          /\ attempts' = Append(attempts, [op |-> OpAt(pc), solver |-> "FLOAT", geom |-> g,
                                          src |-> target, tool |-> tool_obj, id |-> nextId])
          /\ pc' = AfterBoolean(pc)
          /\ part_b_obj' = IF pc = "b_float" THEN nextId ELSE part_b_obj
          /\ part_a_obj' = IF pc = "a_float" THEN nextId ELSE part_a_obj
    /\ UNCHANGED <<args, target, cutter, tool_obj, result, scene0, tgt0, seqVars, sweepLog>>

\* "Verify Part B" (logged only), then "Rename Target to avoid collision".
ctc_rename_target ==
    /\ pc = "rename_target"
    /\ objs' = Rename(objs, target, objs[target].name \o <<"_Processed">>)
    /\ pc' = "a_exact"
    /\ UNCHANGED <<nextId, args, locals, result, scene0, tgt0, attempts, seqVars, sweepLog>>

\* "Triangulate and Recalculate Normals" of each non-empty part, origin to
\* geometry: a non-empty part stays non-empty and keeps its dimensions; the host
\* operators run (and may raise) only if some part is non-empty.
ctc_post ==
    /\ pc = "post"
    /\ \/ pc' = "temp_names"
       \/ /\ objs[part_a_obj].verts > 0 \/ objs[part_b_obj].verts > 0
          /\ pc' = "handler"
    /\ UNCHANGED objs
    /\ UNCHANGED <<nextId, args, locals, result, scene0, tgt0, attempts, seqVars, sweepLog>>

\* "1. Rename current parts to random temps to free up the namespace".
ctc_temp_names ==
    /\ pc = "temp_names"
    /\ \E r \in RandIds :
       objs' = Rename(Rename(objs, part_a_obj, <<"Temp_Part_A_", r>>),
                      part_b_obj, <<"Temp_Part_B_", r>>)
    /\ pc' = "del_stale"
    /\ UNCHANGED <<nextId, args, locals, result, scene0, tgt0, attempts, seqVars, sweepLog>>

\* The final names: the given ones, else derived from the target's current name.
final_a_name == IF part1_name # None THEN part1_name ELSE objs[target].name \o <<"_A">>
final_b_name == IF part2_name # None THEN part2_name ELSE objs[target].name \o <<"_B">>

\* existing_obj = bpy.data.objects.get(name); if existing_obj: remove it
RemoveHolder(o, n) == IF Lookup(o, n) # NoObj THEN Remove(o, Lookup(o, n)) ELSE o

\* Stale objects are left in place.
KeepStale(o, na, nb) == o

\* "2. Force Delete any OTHER objects holding the desired final names".
DeleteStale(o, na, nb) == RemoveHolder(RemoveHolder(o, na), nb)

ctc_del_stale ==
    /\ pc = "del_stale"
    /\ objs' = DeleteStale(objs, final_a_name, final_b_name)
    /\ pc' = "final_names"
    /\ UNCHANGED <<nextId, args, locals, result, scene0, tgt0, attempts, seqVars, sweepLog>>

\* The two final names assigned the other way round.
AssignSwapped(o, a, b, na, nb) == Rename(Rename(o, a, nb), b, na)

\* "3. Assign Final Names": part A first, then part B.
AssignFinal(o, a, b, na, nb) == Rename(Rename(o, a, na), b, nb)

\* An assignment to the name of a removed object raises; part A's rename, done
\* first, stays.
ctc_final_names ==
    /\ pc = "final_names"
    /\ IF ~Alive(objs, part_a_obj)
       THEN /\ pc' = "handler"
            /\ UNCHANGED objs
       ELSE IF ~Alive(objs, part_b_obj)
       THEN /\ objs' = Rename(objs, part_a_obj, final_a_name)
            /\ pc' = "handler"
       ELSE /\ objs' = AssignFinal(objs, part_a_obj, part_b_obj, final_a_name, final_b_name)
            /\ pc' = "ctc_cleanup"
    /\ UNCHANGED <<nextId, args, locals, result, scene0, tgt0, attempts, seqVars, sweepLog>>

\* The processed parent is kept.
KeepTarget(o, t) == o

\* "Cleanup: Delete the original target object now that we have split it"; a
\* failure to do so is logged and swallowed.
RemoveTarget(o, t) == IF Alive(o, t) THEN Remove(o, t) ELSE o

\* The target is removed, then "4. Cleanup" removes the tool; removing a tool
\* that is already gone raises.
ctc_cleanup ==
    /\ pc = "ctc_cleanup"
    /\ IF Alive(RemoveTarget(objs, target), tool_obj)
       THEN /\ objs' = Remove(RemoveTarget(objs, target), tool_obj)
            /\ pc' = "cut_cleanup"
       ELSE /\ objs' = RemoveTarget(objs, target)
            /\ pc' = "handler"
    /\ UNCHANGED <<nextId, args, locals, result, scene0, tgt0, attempts, seqVars, sweepLog>>

\* ---------------------------------------------------------- cut(), the end
RemoveIfAlive(o, id) == IF Alive(o, id) THEN Remove(o, id) ELSE o

\* "Cleanup the auto-cutter", then "Cleanup any leftover cutter debris".
cut_cleanup ==
    /\ pc = "cut_cleanup"
    /\ objs' = CleanupDebris(RemoveIfAlive(objs, cutter))
    /\ pc' = "verify"
    /\ UNCHANGED <<nextId, args, locals, result, scene0, tgt0, attempts, seqVars, sweepLog>>

\* Only part 1 is looked at.
VerdictPart1Only(o, n1, n2) ==
    IF Lookup(o, n1) = NoObj \/ o[Lookup(o, n1)].verts = 0 THEN "False" ELSE "True"

\* "Verify the cut produced valid results": both names resolve to non-empty meshes.
Verdict(o, n1, n2) ==
    IF Lookup(o, n1) = NoObj \/ o[Lookup(o, n1)].verts = 0 THEN "False"
    ELSE IF Lookup(o, n2) = NoObj \/ o[Lookup(o, n2)].verts = 0 THEN "False"
    ELSE "True"

\* bpy.data.objects.get(None) raises (the key must be a string).
cut_verify ==
    /\ pc = "verify"
    /\ IF part1_name = None \/ part2_name = None
       THEN /\ pc' = "handler"
            /\ UNCHANGED result
       ELSE /\ result' = Verdict(objs, part1_name, part2_name)
            /\ pc' = "done"
    /\ UNCHANGED <<objs, nextId, args, locals, scene0, tgt0, attempts, seqVars, sweepLog>>

\* What cut() does with an exception of its second try block, if it re-raised it.
HandlerReraises == "raised"

\* "except Exception as e: ... return False".
HandlerReturn == "False"

\* The handler: remove the cutter, sweep the debris, return False.
cut_handler ==
    /\ pc = "handler"
    /\ objs' = CleanupDebris(RemoveIfAlive(objs, cutter))
    /\ result' = HandlerReturn
    /\ pc' = "done"
    /\ UNCHANGED <<nextId, args, locals, scene0, tgt0, attempts, seqVars, sweepLog>>

CutStep ==
    \/ cut_validate
    \/ cut_create_cutter
    \/ ctc_synth_tool
    \/ ctc_heal
    \/ prb_exact
    \/ prb_float
    \/ ctc_rename_target
    \/ ctc_post
    \/ ctc_temp_names
    \/ ctc_del_stale
    \/ ctc_final_names
    \/ ctc_cleanup
    \/ cut_cleanup
    \/ cut_verify
    \/ cut_handler

\* ------------------------------------------------- a caller of the module
MaxSweeps == 2

TargetNames == {<<"Body">>}
PartNames == {<<"Top">>, <<"Bottom">>, <<"Body">>, None,
              <<"Temp_Part_A_", "1000">>, CutterToolTemp}

\* A caller calls cut() once, with any names.
call_cut ==
    /\ cutNo = 0
    /\ \E t \in TargetNames, a \in PartNames, b \in PartNames : cut(t, a, b)
    /\ UNCHANGED seqVars

\* A caller calls cleanup_debris(); debris_count is what the call removed.
call_cleanup_debris ==
    /\ cutNo = 0
    /\ pc \in {"idle", "done"}
    /\ Len(sweepLog) < MaxSweeps
    /\ objs' = CleanupDebris(objs)
    /\ sweepLog' = Append(sweepLog, Cardinality(DOMAIN objs) - Cardinality(DOMAIN objs'))
    /\ UNCHANGED <<nextId, pc, args, locals, result, scene0, tgt0, attempts, seqVars>>

\* ---------------------------------------------------------- setup_scene()
\* "if no_cut: return".
setup_scene_no_cut ==
    /\ cutNo = 1 /\ pc = "idle" /\ seqReturn = "running" /\ invoked = {}
    /\ seqReturn' = "None"
    /\ UNCHANGED <<objs, nextId, pc, args, locals, result, scene0, tgt0, attempts,
                   cutNo, invoked, cutResults, sweepLog>>

\* "if not textured_cut.cut(...)": the next cut of the list is called.
setup_scene_cut ==
    /\ cutNo \in 1..NumCuts /\ seqReturn = "running"
    /\ cut(CutSpecs[cutNo].target, CutSpecs[cutNo].part1, CutSpecs[cutNo].part2)
    /\ invoked' = invoked \cup {cutNo}
    /\ UNCHANGED <<cutNo, cutResults, seqReturn>>

\* The sequence goes on after a cut whatever it returned.
StopsAfterNever(r) == FALSE

\* "print(ERROR: Cut k failed. Stopping.); return"; an exception out of cut()
\* would end the sequence in setup_scene's own handler.
StopsAfter(r) == r # "True"

\* setup_scene has no return value: "return" on a failed cut, and it falls off
\* its end after the export.
SetupSceneReturn(allCutsOk) == "None"

\* Between two cuts the program holds no object reference (cut()'s locals are
\* gone), so the objects are renumbered 1..n in a fixed order.
RECURSIVE SetToSeq(_)
SetToSeq(S) == IF S = {} THEN <<>>
               ELSE LET x == CHOOSE y \in S : TRUE IN <<x>> \o SetToSeq(S \ {x})

Renumbered(o) == SetToSeq({o[i] : i \in DOMAIN o})

\* The cut has returned: stop, go on to the next cut, or finish (export, save).
setup_scene_next ==
    /\ cutNo \in 1..NumCuts /\ seqReturn = "running"
    /\ pc = "done"
    /\ cutResults' = [cutResults EXCEPT ![cutNo] = result]
    /\ IF StopsAfter(result)
       THEN /\ seqReturn' = SetupSceneReturn(FALSE)
            /\ UNCHANGED <<cutNo, pc, objs, nextId, locals>>
       ELSE IF cutNo < NumCuts
       THEN /\ cutNo' = cutNo + 1
            /\ pc' = "idle"
            /\ objs' = Renumbered(objs)
            /\ nextId' = Cardinality(DOMAIN objs) + 1
            /\ target' = NoObj /\ cutter' = NoObj /\ tool_obj' = NoObj
            /\ temp_obj' = NoObj /\ part_a_obj' = NoObj /\ part_b_obj' = NoObj
            /\ UNCHANGED seqReturn
       ELSE /\ seqReturn' = SetupSceneReturn(TRUE)
            /\ UNCHANGED <<cutNo, pc, objs, nextId, locals>>
    /\ UNCHANGED <<args, result, scene0, tgt0, attempts, invoked, sweepLog>>

\* --------------------------------------------------------- initial states
Full == [verts |-> 1, dims |-> MaxDim]
Stale == [verts |-> 1, dims |-> 1]

\* The scenes a caller can find: the target absent, not a mesh, empty or a solid;
\* stale solids under the output names, a leftover processed parent, a light, a
\* duplicate the host numbered .010.
CallerObjects(tt, tg) ==
    (1 :> Obj(<<"Body">>, tt, tg, "NONE")) @@
    (2 :> Obj(<<"Top">>, "MESH", Stale, "NONE")) @@
    (3 :> Obj(<<"Bottom">>, "MESH", Stale, "NONE")) @@
    (4 :> Obj(<<"Body", "_Processed">>, "MESH", Stale, "NONE")) @@
    (5 :> Obj(<<"Lamp">>, "LIGHT", Empty, "NONE")) @@
    (6 :> Obj(<<"Top", HighDupSuffix>>, "MESH", Stale, "NONE"))

Restrict(f, S) == [i \in S |-> f[i]]

CallerScenes ==
    {Restrict(CallerObjects(v[1], v[2]), S) :
        v \in {<<"MESH", Full>>, <<"MESH", Empty>>, <<"LIGHT", Empty>>},
        S \in SUBSET (1..6)}

Locals0 ==
    /\ target_name = None /\ part1_name = None /\ part2_name = None
    /\ target = NoObj /\ cutter = NoObj /\ tool_obj = NoObj
    /\ temp_obj = NoObj /\ part_a_obj = NoObj /\ part_b_obj = NoObj
    /\ result = "pending" /\ tgt0 = Empty /\ attempts = <<>>
    /\ pc = "idle"
    /\ invoked = {} /\ cutResults = [k \in 1..NumCuts |-> "none"]
    /\ seqReturn = "running"
    /\ sweepLog = <<>>

Init ==
    /\ objs \in CallerScenes
    /\ nextId = 7
    /\ scene0 = objs
    /\ cutNo = 0
    /\ Locals0

\* The scene setup_scene cuts: every object but lights and cameras was deleted,
\* then Guitar_Body (if its file was found) and the neck were imported.
SetupObjects(tg) ==
    (1 :> Obj(<<"Guitar_Body">>, "MESH", tg, "NONE")) @@
    (2 :> Obj(<<"NeckAmericanStandard">>, "MESH", Stale, "NONE")) @@
    (3 :> Obj(<<"Camera">>, "CAMERA", Empty, "NONE"))

SetupScenes == {Restrict(SetupObjects(g), S) : g \in {Full, Empty}, S \in {1..3, 2..3}}

SeqInit ==
    /\ objs \in SetupScenes
    /\ nextId = 4
    /\ scene0 = objs
    /\ cutNo = 1
    /\ Locals0

Next == CutStep \/ call_cut \/ call_cleanup_debris

SeqNext == CutStep \/ setup_scene_no_cut \/ setup_scene_cut \/ setup_scene_next

Spec == Init /\ [][Next]_vars

SeqSpec == SeqInit /\ [][SeqNext]_vars

\* ------------------------------------------- cleanup_debris() on its own
\* Objects for the sweep: one for each test of cleanup_debris, with the marker
\* where the test looks for it and where it does not, of several types.
SweepObjects ==
    (1 :> Obj(AutoCutter, "MESH", PlaneGeom, "NONE")) @@
    (2 :> Obj(CutterToolTemp, "MESH", Empty, "NONE")) @@
    (3 :> Obj(<<"Body", "_Processed">>, "MESH", Full, "NONE")) @@
    (4 :> Obj(<<"Top", ".001">>, "MESH", Stale, "INTERSECT")) @@
    (5 :> Obj(<<"Lamp", ".002", "_Copy">>, "LIGHT", Empty, "NONE")) @@
    (6 :> Obj(<<"Top", HighDupSuffix>>, "MESH", Stale, "NONE")) @@
    (7 :> Obj(<<"My_", "Cutter_Tool">>, "MESH", Stale, "NONE")) @@
    (8 :> Obj(<<"_Processed", "_Body">>, "MESH", Full, "DIFFERENCE")) @@
    (9 :> Obj(<<"Camera">>, "CAMERA", Empty, "NONE"))

SweepScenes == {Restrict(SweepObjects, S) : S \in SUBSET (1..9)}

SweepInit ==
    /\ objs \in SweepScenes
    /\ nextId = 10
    /\ scene0 = objs
    /\ cutNo = 0
    /\ Locals0

\* cleanup_debris() is called, up to MaxSweeps times.
SweepNext == call_cleanup_debris

SweepSpec == SweepInit /\ [][SweepNext]_vars

\* ================================================================ claims
Returned(r) == pc = "done" /\ result = r

Resolves(n) == Lookup(objs, n) # NoObj
NonEmptyAt(n) == Resolves(n) /\ objs[Lookup(objs, n)].verts > 0

\* C1 (name invariant): whenever cut() returns True with both part names
\* different from the target name, no object is named target_name, and
\* part1_name and part2_name resolve to two distinct objects, each with at
\* least one vertex.
C1_NameInvariant ==
    (Returned("True") /\ part1_name # target_name /\ part2_name # target_name)
        => /\ ~Resolves(target_name)
           /\ NonEmptyAt(part1_name)
           /\ NonEmptyAt(part2_name)
           /\ Lookup(objs, part1_name) # Lookup(objs, part2_name)

\* The same with two different part names: this much the code keeps.
C1_DistinctNames ==
    (Returned("True") /\ part1_name # target_name /\ part2_name # target_name
        /\ part1_name # part2_name)
        => /\ ~Resolves(target_name)
           /\ NonEmptyAt(part1_name)
           /\ NonEmptyAt(part2_name)
           /\ Lookup(objs, part1_name) # Lookup(objs, part2_name)

\* A cut returned True for one name given to both parts.
C1_SameNameSuccess == Returned("True") /\ part1_name = part2_name

\* The part names are two different names, both different from the target name.
ProperNames == part1_name # part2_name /\ part1_name # target_name /\ part2_name # target_name

\* C2 (complementarity): whenever cut() returns True (here: for proper names),
\* each of the two parts is non-empty and neither has both the vertex count and
\* the dimensions of the target as it was before the cut.
C2_Complementarity ==
    (Returned("True") /\ ProperNames)
        => \A n \in {part1_name, part2_name} :
              NonEmptyAt(n) /\ GeomOf(objs[Lookup(objs, n)]) # tgt0

\* C3 (fixed role convention): when a cut returns True, the object named
\* part1_name is a DIFFERENCE result and the object named part2_name is an
\* INTERSECT result.
C3_FixedRoles ==
    Returned("True")
        => /\ objs[Lookup(objs, part1_name)].op = "DIFFERENCE"
           /\ objs[Lookup(objs, part2_name)].op = "INTERSECT"

\* With two different part names, at the end of every cut (failed ones too) an
\* object made by the cut and named part1_name is a DIFFERENCE result, one
\* named part2_name an INTERSECT result.
C3_DistinctNames ==
    (pc = "done" /\ part1_name # part2_name)
        => \A i \in DOMAIN objs \ DOMAIN scene0 :
              /\ objs[i].name = part1_name => objs[i].op = "DIFFERENCE"
              /\ objs[i].name = part2_name => objs[i].op = "INTERSECT"

\* The stale solids: objects of the scene the cut found, other than the target,
\* that held one of the two part names.
StaleIds == {i \in DOMAIN scene0 :
                /\ scene0[i].name \in {part1_name, part2_name}
                /\ i # Lookup(scene0, target_name)}

\* C4 (collision safety): when a stale solid held part1_name or part2_name
\* before a cut that returns True, the stale solid is gone afterwards,
\* part1_name names the DIFFERENCE result of this cut and part2_name its
\* INTERSECT result.
C4_CollisionSafety ==
    (Returned("True") /\ StaleIds # {})
        => /\ StaleIds \cap DOMAIN objs = {}
           /\ Lookup(objs, part1_name) = part_a_obj
           /\ Lookup(objs, part2_name) = part_b_obj
           /\ objs[part_a_obj].op = "DIFFERENCE"
           /\ objs[part_b_obj].op = "INTERSECT"

\* The same for two different part names.
C4_DistinctNames ==
    (Returned("True") /\ StaleIds # {} /\ part1_name # part2_name)
        => /\ StaleIds \cap DOMAIN objs = {}
           /\ Lookup(objs, part1_name) = part_a_obj
           /\ Lookup(objs, part2_name) = part_b_obj
           /\ objs[part_a_obj].op = "DIFFERENCE"
           /\ objs[part_b_obj].op = "INTERSECT"

\* C5 (fail-fast sequencing): once cut number k of setup_scene has returned
\* False, no cut with a greater number is ever invoked.
C5_FailFast ==
    \A k \in 1..NumCuts : cutResults[k] = "False" => \A j \in invoked : j <= k

\* The sequence stopped at a failed cut 3.
C5_Witness == cutResults[3] = "False" /\ seqReturn # "running" /\ invoked = 1..3

AllCutsOk == \A k \in 1..NumCuts : cutResults[k] = "True"

\* C6 (sequence result reporting): when setup_scene returns, the value it
\* returns is a success value exactly if every cut succeeded.
C6_ResultReporting ==
    seqReturn # "running" => (seqReturn = "True" <=> AllCutsOk)

\* C7 (idempotent cleanup): a call of cleanup_debris() that directly follows
\* another one changes nothing in the scene and removes nothing.
C7_IdempotentCleanup ==
    [][(Len(sweepLog) >= 1 /\ Len(sweepLog') = Len(sweepLog) + 1)
          => (objs' = objs /\ sweepLog'[Len(sweepLog')] = 0)]_vars

\* Two sweeps in a row, the first of which removed something.
C7_Witness == Len(sweepLog) = 2 /\ sweepLog[1] > 0

\* The names produced by the cuts before cut k and not consumed by one of them.
LiveOutputs(k) ==
    ({CutSpecs[j].part1 : j \in 1..(k - 1)} \cup {CutSpecs[j].part2 : j \in 1..(k - 1)})
        \ {CutSpecs[j].target : j \in 1..(k - 1)}

\* C8 (partial progress is kept): when a cut of the sequence has returned
\* False, every output of the earlier cuts that none of them consumed still
\* resolves.
C8_PartialProgressKept ==
    (cutNo \in 1..NumCuts /\ Returned("False"))
        => \A n \in LiveOutputs(cutNo) : Resolves(n)

\* The same but for the failed cut's own target.
C8_ExceptOwnTarget ==
    (cutNo \in 1..NumCuts /\ Returned("False"))
        => \A n \in LiveOutputs(cutNo) \ {target_name} : Resolves(n)

\* The target is missing, not a mesh, or has no vertex.
PreconditionFails(o, n) ==
    \/ Lookup(o, n) = NoObj
    \/ o[Lookup(o, n)].type # "MESH"
    \/ o[Lookup(o, n)].verts = 0

\* C9 (precondition failures leave the scene untouched): a cut() called on a
\* scene where the target is missing, not a mesh or empty returns False with
\* the scene as it was: nothing created (no cutter, no tool), renamed or removed.
C9_PreconditionFailure ==
    (pc # "idle" /\ sweepLog = <<>> /\ PreconditionFails(scene0, target_name))
        => /\ objs = scene0
           /\ cutter = NoObj /\ tool_obj = NoObj
           /\ pc \in {"validate", "done"}
           /\ pc = "done" => result = "False"

\* A cut returned on a target that exists but is empty (resp. is no mesh).
C9_Witness ==
    /\ Returned("False") /\ sweepLog = <<>>
    /\ Resolves(target_name) /\ PreconditionFails(scene0, target_name)

\* C10 (cut() reports a boolean): every return of cut() is True or False, and a
\* return after an exception (of the cutter-plane block or of the split) is False.
C10_BooleanResult ==
    [][(pc # "done" /\ pc' = "done")
          => /\ result' \in {"True", "False"}
             /\ pc \in {"create_cutter", "handler"} => result' = "False"]_vars

\* cut() has returned after an exception raised while the tool was synthesised.
C10_Witness == Returned("False") /\ cutter # NoObj /\ tool_obj = NoObj /\ target # NoObj

\* A transient name: a cutter name or the being-processed marker.
TransientName(n) ==
    \/ StartsWith(n, "Cutter_Tool")
    \/ StartsWith(n, "Auto_Cutter")
    \/ EndsWith(n, "_Processed")

\* C11 (no debris after the sequence): when the sequence has ended, completed
\* or aborted at a failed cut, no object of the scene has a name that starts
\* with Cutter_Tool or Auto_Cutter or ends in _Processed.
C11_NoDebris ==
    seqReturn # "running" => \A i \in DOMAIN objs : ~TransientName(objs[i].name)

\* The same for a sequence that did not end in the cutter-plane handler of
\* cut(): every other path sweeps before it returns.
C11_ExceptCutterFailure ==
    (seqReturn # "running" /\ ~(pc = "done" /\ cutter # NoObj /\ tool_obj = NoObj /\ Alive(objs, cutter)))
        => \A i \in DOMAIN objs : ~TransientName(objs[i].name)

\* The eight names of final_parts and the seven consumed names.
FinalParts ==
    ({CutSpecs[k].part1 : k \in 1..NumCuts} \cup {CutSpecs[k].part2 : k \in 1..NumCuts})
        \ {CutSpecs[k].target : k \in 1..NumCuts}

ConsumedNames == {CutSpecs[k].target : k \in 1..NumCuts}

\* C12 (all-or-stop completion): when all seven cuts have returned True, each
\* of the eight names of final_parts resolves to a non-empty solid and none of
\* the seven consumed names resolves; and all along the sequence, the outputs
\* of the cuts that returned True and were not consumed since stay non-empty.
C12_AllOrStop ==
    /\ AllCutsOk => /\ Cardinality(FinalParts) = 8
                    /\ \A n \in FinalParts : NonEmptyAt(n)
                    /\ \A n \in ConsumedNames : ~Resolves(n)
    /\ \A k \in 1..NumCuts :
          (cutResults[k] = "True" /\ (pc \in {"idle", "done"}))
             => \A n \in {CutSpecs[k].part1, CutSpecs[k].part2} :
                   (\A j \in invoked : CutSpecs[j].target # n) => NonEmptyAt(n)

\* The sequence completed.
C12_Witness == AllCutsOk /\ seqReturn = "None" /\ invoked = 1..NumCuts

Last(q) == q[Len(q)]

\* A step of perform_robust_boolean that made an attempt.
ExactAttempted == pc \in {"b_exact", "a_exact"} /\ Len(attempts') = Len(attempts) + 1
FloatAttempted == pc \in {"b_float", "a_float"} /\ Len(attempts') = Len(attempts) + 1

\* Validation as the specification words it: the result has geometry and has
\* not the dimensions of the target.
FailsValidation(g, t) == g.verts = 0 \/ g.dims = t.dims

\* The retry: the failed attempt's object is gone, the new attempt is a new
\* duplicate of the target, for the same operation.
RetryIsFresh ==
    /\ ~Alive(objs', temp_obj)
    /\ ~Alive(objs, Last(attempts').id) /\ Alive(objs', Last(attempts').id)
    /\ Last(attempts').src = target /\ Alive(objs', target)
    /\ Last(attempts').op = Last(attempts).op
    /\ Last(attempts).solver = "EXACT" /\ Last(attempts').solver = "FLOAT"

\* C13 (two-tier solver fallback): for each boolean operation the EXACT solver
\* is tried first; the FLOAT solver is tried if and only if the EXACT result
\* is empty or has the dimensions of the target; the retry deletes the failed
\* attempt and works on a fresh duplicate of the target.
C13_TwoTierFallback ==
    [][/\ ExactAttempted
          => /\ Last(attempts').solver = "EXACT"
             /\ pc' \in {"b_float", "a_float"}
                   <=> FailsValidation(Last(attempts').geom, GeomOf(objs[target]))
       /\ FloatAttempted => RetryIsFresh]_vars

\* What the code does: the same with "the EXACT result is empty" as the only
\* reason for the retry.
C13_EmptinessOnly ==
    [][/\ ExactAttempted
          => /\ Last(attempts').solver = "EXACT"
             /\ pc' \in {"b_float", "a_float"} <=> Last(attempts').geom.verts = 0
       /\ FloatAttempted => RetryIsFresh]_vars

\* An operation whose result was empty after the EXACT and the FLOAT attempt.
CriticalFailure ==
    \E i \in DOMAIN attempts : attempts[i].solver = "FLOAT" /\ attempts[i].geom.verts = 0

\* C14 (critical split failure aborts): a cut in which an operation was still
\* empty after both attempts returns False.
C14_CriticalFailureAborts ==
    (pc = "done" /\ CriticalFailure) => result = "False"

\* With two different part names: the doubly empty result is returned to
\* create_textured_cut, not raised, and the cut returns False.
C14_DistinctNames ==
    /\ []((pc = "done" /\ CriticalFailure /\ part1_name # part2_name) => result = "False")
    /\ [][(FloatAttempted /\ Last(attempts').geom.verts = 0)
             => /\ pc' = AfterBoolean(pc)
                /\ Alive(objs', Last(attempts').id)
                /\ objs'[Last(attempts').id].verts = 0]_vars

\* Every INTERSECT attempt comes before every DIFFERENCE attempt, and a
\* DIFFERENCE attempt is never the first.
IntersectFirst(q) ==
    /\ Len(q) > 0 => q[1].op = "INTERSECT"
    /\ \A i, j \in DOMAIN q : (i < j /\ q[i].op = "DIFFERENCE") => q[j].op = "DIFFERENCE"

\* Every attempt duplicated the target anew and used the one cutting tool.
FreshOperands(q) ==
    /\ \A i \in DOMAIN q : q[i].src = target /\ q[i].tool = tool_obj /\ q[i].id \notin DOMAIN scene0
    /\ \A i, j \in DOMAIN q : i # j => q[i].id # q[j].id
    /\ \A i \in DOMAIN q : q[i].id \notin {target, tool_obj, cutter}

SplitPcs == {"b_exact", "b_float", "rename_target", "a_exact", "a_float"}

ResolutionOrder ==
    /\ pc = "temp_names" => pc' = "del_stale"
    /\ pc = "del_stale" => pc' = "final_names"
    /\ pc' = "del_stale" => pc = "temp_names"
    /\ pc' = "final_names" => pc = "del_stale"

\* C16 (identity resolution order): both fresh outputs get scratch names, then
\* the holders of the two final names are deleted, then the fresh outputs get
\* their final names, in this order; the deletion step never deletes a fresh
\* output of the cut, whatever the scene and the final names.
C16_ResolutionOrder ==
    [][/\ ResolutionOrder
       /\ pc = "del_stale" => Alive(objs', part_a_obj) /\ Alive(objs', part_b_obj)]_vars

\* A scratch name: Temp_Part_A_<r> or Temp_Part_B_<r>.
ScratchName(n) == Len(n) > 0 /\ n[1] \in {"Temp_Part_A_", "Temp_Part_B_"}

\* The same for final names that are not scratch names.
C16_NonScratchNames ==
    [][/\ ResolutionOrder
       /\ (pc = "del_stale" /\ ~ScratchName(part1_name) /\ ~ScratchName(part2_name))
             => Alive(objs', part_a_obj) /\ Alive(objs', part_b_obj)]_vars

\* The stages in the order of the code: Lookup target, Synthesize tool
\* (seed plane and tool), Precondition target, Split, Resolve identity,
\* Cleanup tool; 7 is the end of cut() (cleanup, verification, handler).
CodeStage(p) ==
    CASE p = "idle" -> 0
      [] p = "validate" -> 1
      [] p \in {"create_cutter", "synth_tool"} -> 2
      [] p = "heal" -> 3
      [] p \in {"b_exact", "b_float", "rename_target", "a_exact", "a_float", "post"} -> 4
      [] p \in {"temp_names", "del_stale", "final_names"} -> 5
      [] p = "ctc_cleanup" -> 6
      [] OTHER -> 7

\* The stages in the order Lookup target, Precondition target, Synthesize
\* tool, Split, Resolve identity, Cleanup tool.
ClaimedStage(p) ==
    CASE p = "heal" -> 2
      [] p \in {"create_cutter", "synth_tool"} -> 3
      [] OTHER -> CodeStage(p)

InCut == pc \notin {"idle", "done"}

ToolNamed == part1_name = CutterToolTemp \/ part2_name = CutterToolTemp

C18_DegenerateToolAborts ==
    (tool_obj # NoObj /\ Alive(objs, tool_obj) /\ objs[tool_obj].verts = 0)
        => attempts = <<>>

OutputsOf(k) == {CutSpecs[k].part1, CutSpecs[k].part2}

\* Cut k of the list fits the cuts before it.
WellFormedAt(k) ==
    /\ \/ CutSpecs[k].target = <<"Guitar_Body">>
       \/ \E j \in 1..(k - 1) : CutSpecs[k].target \in OutputsOf(j)
    /\ \A j \in 1..(k - 1) : CutSpecs[j].target # CutSpecs[k].target
    /\ CutSpecs[k].part1 # CutSpecs[k].part2
    /\ \A j \in 1..(k - 1) : OutputsOf(j) \cap OutputsOf(k) = {}
    /\ \A j \in 1..k : CutSpecs[j].target \notin OutputsOf(k)

\* C19 (the sequence is well formed): every cut setup_scene invokes targets
\* Guitar_Body or an output of an earlier cut of the list, no name is a target
\* twice, and no output name is produced twice or equals a name already
\* consumed.
C19_WellFormedSequence ==
    /\ \A k \in invoked : k \in 1..NumCuts /\ WellFormedAt(k)
    /\ pc # "idle" => /\ target_name = CutSpecs[cutNo].target
                     /\ part1_name = CutSpecs[cutNo].part1
                     /\ part2_name = CutSpecs[cutNo].part2

\* All seven cuts have been invoked.
C19_Witness == invoked = 1..NumCuts /\ pc = "done"

\* A name the host made by numbering a duplicate: a base name and a numeric suffix.
IsDupVariant(n) == Len(n) > 1 /\ (HasDupSuffix(n) \/ n[Len(n)] = HighDupSuffix)

\* cleanup_debris() was the last thing called.
JustSwept == Len(sweepLog) >= 1

\* C20 (the sweep removes every duplicate-name variant): after
\* cleanup_debris() no object of the scene has a name made of a base name and
\* a numeric suffix the host generates, .010 included.
C20_AllDupVariantsSwept ==
    JustSwept => \A i \in DOMAIN objs : ~IsDupVariant(objs[i].name)

\* The same for the suffixes that contain ".00" (.001 to .009).
C20_LowSuffixesSwept ==
    JustSwept => \A i \in DOMAIN objs : ~HasDupSuffix(objs[i].name)

\* The names cleanup_debris() is to delete: a cutter prefix, the processed
\* suffix, or ".00" anywhere.
SweepPattern(n) ==
    \/ n[1] \in {"Cutter_Tool", "Auto_Cutter"}
    \/ n[Len(n)] = "_Processed"
    \/ \E i \in 1..Len(n) : n[i] \in {".001", ".002", ".003", ".004", ".005", ".006"}

\* A step that is a call of cleanup_debris().
Sweeps == Len(sweepLog') = Len(sweepLog) + 1

Omitted == part1_name = None \/ part2_name = None

\* The split of this cut returned two non-empty parts.
TwoParts ==
    /\ part_a_obj # NoObj /\ part_b_obj # NoObj
    /\ \E i \in DOMAIN attempts : attempts[i].id = part_a_obj /\ attempts[i].geom.verts > 0
    /\ \E i \in DOMAIN attempts : attempts[i].id = part_b_obj /\ attempts[i].geom.verts > 0

\* <target>_Processed_A and <target>_Processed_B.
DerivedA == target_name \o <<"_Processed", "_A">>
DerivedB == target_name \o <<"_Processed", "_B">>

\* The part of an omitted name is in the scene under its derived name.
LeftUnderDerivedNames ==
    /\ part1_name = None =>
          /\ Alive(objs, part_a_obj) /\ objs[part_a_obj].name = DerivedA
          /\ ~Resolves(target_name \o <<"_A">>)
    /\ part2_name = None =>
          /\ Alive(objs, part_b_obj) /\ objs[part_b_obj].name = DerivedB
          /\ ~Resolves(target_name \o <<"_B">>)

\* C22 (omitted output names never succeed): a cut() called with part1_name
\* or part2_name left at None returns False whatever the scene; when its
\* split gave two non-empty parts, then at the final verification the parts
\* with an omitted name are in the scene as <target>_Processed_A and
\* <target>_Processed_B, not as <target>_A and <target>_B.
C22_OmittedNames ==
    /\ (pc = "done" /\ Omitted) => result = "False"
    /\ (pc = "verify" /\ Omitted /\ TwoParts) => LeftUnderDerivedNames

\* The scene the cut was called on held an object named <target>_Processed.
LeftoverProcessed == Lookup(scene0, target_name \o <<"_Processed">>) # NoObj

\* What the code does: the cut returns False; the parts are left under the
\* derived names if the scene held no <target>_Processed, and are swept (their
\* names then contain .001) if it did; the verification raises and the handler
\* leaves every part it finds under a name that is no debris name.
C22_ExceptLeftover ==
    /\ []((pc = "done" /\ Omitted) => result = "False")
    /\ []((pc = "verify" /\ Omitted /\ TwoParts /\ ~LeftoverProcessed) => LeftUnderDerivedNames)
    /\ []((pc = "verify" /\ Omitted /\ TwoParts /\ LeftoverProcessed)
             => /\ part1_name = None => ~Alive(objs, part_a_obj)
                /\ part2_name = None => ~Alive(objs, part_b_obj))
    /\ [][(pc = "verify" /\ Omitted) => (pc' = "handler" /\ objs' = objs)]_vars
    /\ [][pc = "handler"
             => \A i \in {part_a_obj, part_b_obj} \cap DOMAIN objs :
                   ~IsDebris(objs[i].name) => (Alive(objs', i) /\ objs'[i] = objs[i])]_vars

====
